---- MODULE Spec2Model ----
(***************************************************************************)
(* Model of sprite_sheet_node.py: the sprite sheet packer                  *)
(* (CreateSpriteSheetImageNode.create_sprite_sheet) and the Godot .tres    *)
(* writer (CreateGodotTresFileNode.create_tres_file).                      *)
(*                                                                         *)
(* Strings are tuples of one-character strings, so that formatting,        *)
(* stripping and joining are computed and not assumed.  An image is the    *)
(* record of its size and mode; the composite is its size and the list of  *)
(* paste operations made on it.  A file is the sequence of blocks of the   *)
(* emitted document.                                                       *)
(***************************************************************************)
EXTENDS Integers, Sequences, FiniteSets, TLC

\* ------------------------------------------------------------------ bounds
MaxFrames == 3      \* batch length of the input tensor: 0 .. MaxFrames
MaxDim == 2         \* height and width of a frame: 1 .. MaxDim
MaxColumns == 2     \* column_count input: -1 .. MaxColumns
MaxRows == 2        \* row_count input: -1 .. MaxRows
MaxPadding == 2     \* number_padding input: 1 .. MaxPadding
MaxCalls == 2       \* calls of create_tres_file in one behaviour

\* ---------------------------------------------------------------- helpers
RECURSIVE SeqMax(_)
\* max(... for img in pil_images) over a non-empty sequence of numbers
SeqMax(s) ==
    IF Len(s) = 1 THEN s[1]
    ELSE LET m == SeqMax(Tail(s)) IN IF s[1] >= m THEN s[1] ELSE m

\* Python's // and % (floor division, remainder with the divisor's sign) for a >= 0, b # 0
PyFloorDiv(a, b) ==
    IF b > 0 THEN a \div b ELSE -((a + (-b) - 1) \div (-b))

PyMod(a, b) == a - b * PyFloorDiv(a, b)

\* ============================================================ the packer
\* The input tensor [B, H, W, C]: every frame of a batch has the same shape.
Channels == {1, 3, 4}

Tensors ==
    [n : 0..MaxFrames, h : 1..MaxDim, w : 1..MaxDim, c : Channels]

RECURSIVE tensor_to_pil_from(_, _)
\* the loop of tensor_to_pil from batch index i on: a frame that has neither
\* 4 nor 3 channels is skipped
tensor_to_pil_from(tensor, i) ==
    IF i >= tensor.n THEN << >>
    ELSE IF tensor.c = 4
         THEN << [width |-> tensor.w, height |-> tensor.h, mode |-> "RGBA", src |-> i] >>
              \o tensor_to_pil_from(tensor, i + 1)
    ELSE IF tensor.c = 3
         THEN << [width |-> tensor.w, height |-> tensor.h, mode |-> "RGB", src |-> i] >>
              \o tensor_to_pil_from(tensor, i + 1)
    ELSE tensor_to_pil_from(tensor, i + 1)

tensor_to_pil(tensor) == tensor_to_pil_from(tensor, 0)

\* column_count after "if column_count <= 0: column_count = 1"
CoerceColumns(column_count) == IF column_count <= 0 THEN 1 ELSE column_count

\* a slip: floor division, so that a last row that is not full gets no row
ComputeRowsFloor(frame_count, column_count, row_count) ==
    IF row_count <= 0
    THEN frame_count \div column_count
    ELSE row_count

\* row_count after "if row_count <= 0: row_count = (frame_count + column_count - 1) // column_count"
\* (column_count is the coerced one)
ComputeRows(frame_count, column_count, row_count) ==
    IF row_count <= 0
    THEN (frame_count + column_count - 1) \div column_count
    ELSE row_count

\* frame_count = len(pil_images)
FrameCount(pil_images) == Len(pil_images)

\* a slip: the number of frames that were pasted is reported
ReturnedFrameCountPlaced(frame_count, pasted) == Len(pasted)

\* the frame_count of the returned tuple: the one computed before the loop
ReturnedFrameCount(frame_count, pasted) == frame_count

RECURSIVE PasteLoopLateBreak(_, _, _, _, _, _, _)
\* a slip: the capacity test is "i > column_count * row_count"
PasteLoopLateBreak(pil_images, i, column_count, row_count, frame_width, frame_height, pasted) ==
    IF i >= Len(pil_images) THEN pasted
    ELSE IF i > column_count * row_count THEN pasted
    ELSE LET pil_image == pil_images[i + 1]
             row == i \div column_count
             col == i % column_count
         IN PasteLoopLateBreak(pil_images, i + 1, column_count, row_count,
                               frame_width, frame_height,
                               Append(pasted, [src |-> pil_image.src,
                                               x |-> col * frame_width,
                                               y |-> row * frame_height,
                                               width |-> pil_image.width,
                                               height |-> pil_image.height,
                                               mask |-> pil_image.mode = "RGBA"]))

RECURSIVE PasteLoopColumnMajor(_, _, _, _, _, _, _)
\* a slip: "col, row = divmod(i, column_count)"
PasteLoopColumnMajor(pil_images, i, column_count, row_count, frame_width, frame_height, pasted) ==
    IF i >= Len(pil_images) THEN pasted
    ELSE IF i >= column_count * row_count THEN pasted
    ELSE LET pil_image == pil_images[i + 1]
             col == i \div column_count
             row == i % column_count
         IN PasteLoopColumnMajor(pil_images, i + 1, column_count, row_count,
                                 frame_width, frame_height,
                                 Append(pasted, [src |-> pil_image.src,
                                                 x |-> col * frame_width,
                                                 y |-> row * frame_height,
                                                 width |-> pil_image.width,
                                                 height |-> pil_image.height,
                                                 mask |-> pil_image.mode = "RGBA"]))

RECURSIVE PasteLoop(_, _, _, _, _, _, _)
\* the enumerate loop from index i on; pasted is the list of paste operations so far
PasteLoop(pil_images, i, column_count, row_count, frame_width, frame_height, pasted) ==
    IF i >= Len(pil_images) THEN pasted
    ELSE IF i >= column_count * row_count THEN pasted
    ELSE LET pil_image == pil_images[i + 1]
             row == i \div column_count
             col == i % column_count
             x == col * frame_width
             y == row * frame_height
             mask == pil_image.mode = "RGBA"
         IN PasteLoop(pil_images, i + 1, column_count, row_count, frame_width, frame_height,
                      Append(pasted, [src |-> pil_image.src, x |-> x, y |-> y,
                                      width |-> pil_image.width, height |-> pil_image.height,
                                      mask |-> mask]))

NoSheet == [status |-> "none"]

\* create_sprite_sheet as a function of its arguments: what it raises or returns
create_sprite_sheet(images, column_count_in, row_count_in) ==
    LET pil_images == tensor_to_pil(images) IN
    IF pil_images = << >>
    THEN [status |-> "raised", error |-> "ValueError: Input images are empty."]
    ELSE LET frame_count == FrameCount(pil_images)
             column_count == CoerceColumns(column_count_in)
             row_count == ComputeRows(frame_count, column_count, row_count_in)
             frame_width == SeqMax([k \in 1..Len(pil_images) |-> pil_images[k].width])
             frame_height == SeqMax([k \in 1..Len(pil_images) |-> pil_images[k].height])
         IN [status |-> "returned",
             grid_size |-> << frame_width * column_count, frame_height * row_count >>,
             pasted |-> PasteLoop(pil_images, 0, column_count, row_count,
                                  frame_width, frame_height, << >>),
             column_count |-> column_count,
             row_count |-> row_count,
             frame_width |-> frame_width,
             frame_height |-> frame_height,
             frame_count |-> ReturnedFrameCount(frame_count,
                                 PasteLoop(pil_images, 0, column_count, row_count,
                                           frame_width, frame_height, << >>))]

\* ============================================================ strings
Digits == << "0", "1", "2", "3", "4", "5", "6", "7", "8", "9" >>

RECURSIVE Str(_)
\* the decimal digits of n >= 0, as format() writes them
Str(n) ==
    IF n < 10 THEN << Digits[n + 1] >>
    ELSE Str(n \div 10) \o << Digits[(n % 10) + 1] >>

\* a slip: one zero too many
ZeroPadWide(n, width) ==
    LET s == Str(n) IN
    IF Len(s) > width THEN s
    ELSE [k \in 1..(width - Len(s) + 1) |-> "0"] \o s

\* f"{i:0{number_padding}}": zero-filled to a minimum width, never truncated
ZeroPad(n, width) ==
    LET s == Str(n) IN
    IF Len(s) >= width THEN s
    ELSE [k \in 1..(width - Len(s)) |-> "0"] \o s

IsSpace(ch) == ch = " "

RECURSIVE LStrip(_)
LStrip(s) ==
    IF s # << >> /\ IsSpace(s[1]) THEN LStrip(Tail(s)) ELSE s

RECURSIVE RStrip(_)
RStrip(s) ==
    IF s # << >> /\ IsSpace(s[Len(s)]) THEN RStrip(SubSeq(s, 1, Len(s) - 1)) ELSE s

\* str.strip()
Strip(s) == RStrip(LStrip(s))

\* os.path.isabs
IsAbs(path) == path # << >> /\ path[1] = "/"

\* os.path.join(a, b) for a relative b
PathJoin(a, b) ==
    IF a # << >> /\ a[Len(a)] = "/" THEN a \o b ELSE a \o << "/" >> \o b

\* folder_paths.get_base_path(): the host's base directory
BasePath == << "/", "b" >>

\* target_dir of create_tres_file
TargetDir(save_directory_path) ==
    LET user_path == Strip(save_directory_path) IN
    IF ~IsAbs(user_path) THEN PathJoin(BasePath, user_path) ELSE user_path

\* the directories os.makedirs(path) walks through: path and its ancestors below "/",
\* in the order in which they are created (outermost first)
DirChain(path) ==
    LET ends == { k \in 2..Len(path) : k = Len(path) \/ path[k + 1] = "/" }
        cuts == { k \in ends : path[k] # "/" }
    IN { SubSeq(path, 1, k) : k \in cuts }

\* base_name = f"{filename_prefix}_{i:0{number_padding}}"
BaseName(filename_prefix, i, number_padding) ==
    filename_prefix \o << "_" >> \o ZeroPad(i, number_padding)

TresFilename(base_name) == base_name \o << ".tres" >>

ImageFilename(base_name) == base_name \o << ".png" >>

\* ======================================================== the serializer
\* os.urandom(nbytes).hex(): two representatives of the 5 bytes of the resource id,
\* which tell the documents of two calls apart, and one of the 12 bytes of a uid
Urandom(nbytes) == IF nbytes = 5 THEN { "c0de", "f00d" } ELSE { "0123456789ab" }

AtlasId(n) == << "AtlasTexture_", n >>

RECURSIVE SubResourcesSwapped(_, _, _, _, _, _)
\* a slip: the cell's width and height are exchanged in the origin
SubResourcesSwapped(i, image_resource_id, frame_width, frame_height, frame_count, column_count) ==
    IF i >= frame_count THEN << >>
    ELSE LET row == PyFloorDiv(i, column_count)
             col == PyMod(i, column_count)
             x == col * frame_height
             y == row * frame_width
         IN << [type |-> "sub_resource", kind |-> "AtlasTexture", id |-> AtlasId(i + 1),
                atlas |-> image_resource_id,
                region |-> << x, y, frame_width, frame_height >>] >>
            \o SubResourcesSwapped(i + 1, image_resource_id, frame_width, frame_height,
                                   frame_count, column_count)

RECURSIVE SubResources(_, _, _, _, _, _)
\* the loop "for i in range(frame_count)" from index i on
SubResources(i, image_resource_id, frame_width, frame_height, frame_count, column_count) ==
    IF i >= frame_count THEN << >>
    ELSE LET row == PyFloorDiv(i, column_count)
             col == PyMod(i, column_count)
             x == col * frame_width
             y == row * frame_height
         IN << [type |-> "sub_resource", kind |-> "AtlasTexture", id |-> AtlasId(i + 1),
                atlas |-> image_resource_id,
                region |-> << x, y, frame_width, frame_height >>] >>
            \o SubResources(i + 1, image_resource_id, frame_width, frame_height,
                            frame_count, column_count)

\* "frames": [ ... ] of the animation
FrameList(frame_count) ==
    [k \in 1..frame_count |-> [duration |-> 1, texture |-> AtlasId(k)]]

\* load_steps of the header
LoadSteps(frame_count) == frame_count + 2

\* generate_godot_tres_content, given the three os.urandom draws; the document is
\* the sequence of its blocks
generate_godot_tres_content(image_filename, frame_width, frame_height, frame_count, column_count, rid, uid1, uid2) ==
    LET image_resource_id == << "1_", rid >> IN
    << [type |-> "gd_resource", kind |-> "SpriteFrames",
        load_steps |-> LoadSteps(frame_count), uid |-> uid1],
       [type |-> "ext_resource", kind |-> "Texture2D", uid |-> uid2,
        path |-> image_filename, id |-> image_resource_id] >>
    \o SubResources(0, image_resource_id, frame_width, frame_height, frame_count, column_count)
    \o << [type |-> "resource", frames |-> FrameList(frame_count),
           loop |-> TRUE, name |-> "default", speed |-> 5] >>

\* divmod(i, column_count) raises ZeroDivisionError in the first iteration
GenerateRaises(frame_count, column_count) == frame_count >= 1 /\ column_count = 0

\* ======================================================== the file system
\* a slip: os.path.isdir in the place of os.path.exists
ExistsDirOnly(ds, fs, path) == path \in ds

\* os.path.exists
Exists(ds, fs, path) == path \in ds \/ path \in DOMAIN fs

\* open(path, 'w'): creates the file or truncates it
OpenW(fs, path) ==
    [q \in (DOMAIN fs) \cup {path} |-> IF q = path THEN << >> ELSE fs[q]]

\* a slip: the handle appends (mode 'a')
WriteCloseAppend(fs, path, content) ==
    [q \in (DOMAIN fs) \cup {path} |->
        IF q # path THEN fs[q]
        ELSE IF path \in DOMAIN fs THEN fs[path] \o content ELSE content]

\* f.write(content) through a handle opened at offset 0, then close: the blocks
\* are written over the file's from its start
WriteClose(fs, path, content) ==
    [q \in (DOMAIN fs) \cup {path} |->
        IF q # path THEN fs[q]
        ELSE IF path \in DOMAIN fs /\ Len(fs[path]) > Len(content)
             THEN content \o SubSeq(fs[path], Len(content) + 1, Len(fs[path]))
             ELSE content]

\* =========================================================== the state
VARIABLES
    pack_in,        \* the arguments of the create_sprite_sheet call, NoCall before it
    sheet,          \* what create_sprite_sheet raised or returned, NoSheet before it
    dirs,           \* file system: the directories that exist
    files,          \* file system: path -> content of the files that exist
    pc,             \* per invocation of create_tres_file: where it stands
    args,           \* its arguments
    target_dir,     \* its locals, named as in the code
    i,
    base_name,
    full_tres_path,
    tres_content,
    ret,            \* the path it returned
    before,         \* the file system when it was called
    calls,          \* number of create_tres_file calls started
    wired,          \* the metadata on the node's inputs when it is run by itself
    log             \* the calls that returned, in order

vars == << pack_in, sheet, dirs, files, pc, args, target_dir, i, base_name,
           full_tres_path, tres_content, ret, before, calls, wired, log >>

Procs == {1, 2}

NoCall == [status |-> "none"]
None == << >>

\* -------------------------------------------------------------- inputs
Prefixes == { << "a" >>, << "a", "_", "0" >> }

\* a relative path with leading blanks and an absolute path with a trailing blank
SaveDirs == { << " ", "o", "/", "s" >>, << "/", "b", "/", "o", "/", "s", " " >> }

OutDir == << "/", "b", "/", "o", "/", "s" >>

\* metadata handed to create_tres_file directly (the first is the spec's example)
TresMetas ==
    { [frame_width |-> 64, frame_height |-> 64, frame_count |-> 4, column_count |-> 2],
      [frame_width |-> 2, frame_height |-> 3, frame_count |-> 3, column_count |-> 1] }

Namings ==
    [filename_prefix : Prefixes, save_directory_path : SaveDirs,
     number_padding : 1..MaxPadding]

MkArgs(meta, naming) ==
    [frame_width |-> meta.frame_width, frame_height |-> meta.frame_height,
     frame_count |-> meta.frame_count, column_count |-> meta.column_count,
     filename_prefix |-> naming.filename_prefix,
     save_directory_path |-> naming.save_directory_path,
     number_padding |-> naming.number_padding]

\* a file that was in the directory before any call
Foreign == << [type |-> "foreign"] >>

OldNames ==
    { << "a", "_", "1", ".tres" >>, << "a", "_", "2", ".tres" >>,
      << "a", "_", "0", "1", ".tres" >> }

\* the file systems a behaviour can start from: the output directory missing,
\* half there, or there with any set of older files
InitialFs ==
    { [dirs |-> {BasePath}, files |-> << >>],
      [dirs |-> {BasePath, << "/", "b", "/", "o" >>}, files |-> << >>] }
    \cup { [dirs |-> DirChain(OutDir),
            files |-> [q \in { PathJoin(OutDir, n) : n \in names } |-> Foreign]]
           : names \in SUBSET OldNames }

\* a run of the workflow starts without the output directory, or with one earlier file in it
FreshFs ==
    { f \in InitialFs :
        \/ f.dirs = {BasePath}
        \/ DOMAIN f.files = { PathJoin(OutDir, << "a", "_", "1", ".tres" >>) } }

InitWith(fss, metas) ==
    /\ pack_in = NoCall
    /\ sheet = NoSheet
    /\ \E f \in fss : dirs = f.dirs /\ files = f.files
    /\ pc = [p \in Procs |-> "idle"]
    /\ args = [p \in Procs |-> None]
    /\ target_dir = [p \in Procs |-> None]
    /\ i = [p \in Procs |-> 0]
    /\ base_name = [p \in Procs |-> None]
    /\ full_tres_path = [p \in Procs |-> None]
    /\ tres_content = [p \in Procs |-> None]
    /\ ret = [p \in Procs |-> None]
    /\ before = [p \in Procs |-> None]
    /\ calls = 0
    /\ wired \in metas
    /\ log = << >>

\* the workflow: a fresh or nearly fresh output directory
Init == InitWith(FreshFs, {None})

\* the serializer alone: any of the initial directories
InitTres == InitWith(InitialFs, TresMetas)

\* two invocations of the serializer
InitConc == InitWith(FreshFs, TresMetas)

\* ------------------------------------------------------------ the packer
\* create_sprite_sheet(images, column_count, row_count), the whole call
CreateSpriteSheet ==
    /\ pack_in = NoCall
    /\ \E images \in Tensors, column_count \in -1..MaxColumns, row_count \in -1..MaxRows :
          /\ pack_in' = [status |-> "called", images |-> images,
                         column_count |-> column_count, row_count |-> row_count]
          /\ sheet' = create_sprite_sheet(images, column_count, row_count)
    /\ UNCHANGED << dirs, files, pc, args, target_dir, i, base_name,
                    full_tres_path, tres_content, ret, before, calls, wired, log >>

\* -------------------------------------------------------- create_tres_file
\* where a call that ended with an exception stands
Failed == {"failed_makedirs", "failed_generate", "failed_open", "failed_write"}

Enter(p, a) ==
    /\ pc[p] \in {"idle", "done"} \cup Failed
    /\ calls < MaxCalls
    /\ calls' = calls + 1
    /\ args' = [args EXCEPT ![p] = a]
    /\ before' = [before EXCEPT ![p] = [dirs |-> dirs, files |-> files]]
    /\ pc' = [pc EXCEPT ![p] = "makedirs"]
    /\ target_dir' = [target_dir EXCEPT ![p] = None]
    /\ i' = [i EXCEPT ![p] = 0]
    /\ base_name' = [base_name EXCEPT ![p] = None]
    /\ full_tres_path' = [full_tres_path EXCEPT ![p] = None]
    /\ tres_content' = [tres_content EXCEPT ![p] = None]
    /\ ret' = [ret EXCEPT ![p] = None]
    /\ UNCHANGED << pack_in, sheet, dirs, files, wired, log >>

\* the node is run with metadata typed in or wired from anywhere
Call(p) ==
    \E naming \in Namings : Enter(p, MkArgs(wired, naming))

\* the node is run once on the packer's outputs, with the packer's column_count input
CallFromSheet(p) ==
    /\ sheet.status = "returned"
    /\ calls = 0
    /\ \E naming \in Namings :
          Enter(p, MkArgs([frame_width |-> sheet.frame_width,
                           frame_height |-> sheet.frame_height,
                           frame_count |-> sheet.frame_count,
                           column_count |-> pack_in.column_count], naming))

\* lines 140-144: resolve the directory, os.makedirs(target_dir, exist_ok=True), i = 1
MakeDirs(p) ==
    /\ pc[p] = "makedirs"
    /\ target_dir' = [target_dir EXCEPT ![p] = TargetDir(args[p].save_directory_path)]
    /\ dirs' = dirs \cup DirChain(target_dir'[p])
    /\ i' = [i EXCEPT ![p] = 1]
    /\ pc' = [pc EXCEPT ![p] = "scan"]
    /\ UNCHANGED << pack_in, sheet, files, args, base_name, full_tres_path,
                    tres_content, ret, before, calls, wired, log >>

Candidate(p) ==
    PathJoin(target_dir[p],
             TresFilename(BaseName(args[p].filename_prefix, i[p], args[p].number_padding)))

\* a slip: the test of the loop is lost, the first name is always used
TakenNever(ds, fs, path) == FALSE

\* does the scan go on to the next index?
Taken(ds, fs, path) == Exists(ds, fs, path)

\* lines 148-155, the name is taken: i += 1
ScanNext(p) ==
    /\ pc[p] = "scan"
    /\ Taken(dirs, files, Candidate(p))
    /\ base_name' = [base_name EXCEPT
                        ![p] = BaseName(args[p].filename_prefix, i[p], args[p].number_padding)]
    /\ full_tres_path' = [full_tres_path EXCEPT ![p] = Candidate(p)]
    /\ i' = [i EXCEPT ![p] = i[p] + 1]
    /\ UNCHANGED << pack_in, sheet, dirs, files, pc, args, target_dir,
                    tres_content, ret, before, calls, wired, log >>

\* lines 148-154, the name is free: break
ScanBreak(p) ==
    /\ pc[p] = "scan"
    /\ ~Taken(dirs, files, Candidate(p))
    /\ base_name' = [base_name EXCEPT
                        ![p] = BaseName(args[p].filename_prefix, i[p], args[p].number_padding)]
    /\ full_tres_path' = [full_tres_path EXCEPT ![p] = Candidate(p)]
    /\ pc' = [pc EXCEPT ![p] = "generate"]
    /\ UNCHANGED << pack_in, sheet, dirs, files, args, target_dir, i,
                    tres_content, ret, before, calls, wired, log >>

\* lines 157-159: the document is generated
Generate(p) ==
    /\ pc[p] = "generate"
    /\ ~GenerateRaises(args[p].frame_count, args[p].column_count)
    /\ \E rid \in Urandom(5), uid1 \in Urandom(12), uid2 \in Urandom(12) :
          tres_content' = [tres_content EXCEPT ![p] =
              generate_godot_tres_content(ImageFilename(base_name[p]),
                  args[p].frame_width, args[p].frame_height, args[p].frame_count,
                  args[p].column_count, rid, uid1, uid2)]
    /\ pc' = [pc EXCEPT ![p] = "open"]
    /\ UNCHANGED << pack_in, sheet, dirs, files, args, target_dir, i, base_name,
                    full_tres_path, ret, before, calls, wired, log >>

\* line 122 divides by a column_count of 0: the call ends with the exception
GenerateFails(p) ==
    /\ pc[p] = "generate"
    /\ GenerateRaises(args[p].frame_count, args[p].column_count)
    /\ pc' = [pc EXCEPT ![p] = "failed_generate"]
    /\ UNCHANGED << pack_in, sheet, dirs, files, args, target_dir, i, base_name,
                    full_tres_path, tres_content, ret, before, calls, wired, log >>

\* line 161: open(full_tres_path, 'w')
Open(p) ==
    /\ pc[p] = "open"
    /\ files' = OpenW(files, full_tres_path[p])
    /\ pc' = [pc EXCEPT ![p] = "write"]
    /\ UNCHANGED << pack_in, sheet, dirs, args, target_dir, i, base_name,
                    full_tres_path, tres_content, ret, before, calls, wired, log >>

\* lines 161-162: f.write(tres_content) and the close that ends the with block
Write(p) ==
    /\ pc[p] = "write"
    /\ files' = WriteClose(files, full_tres_path[p], tres_content[p])
    /\ pc' = [pc EXCEPT ![p] = "return"]
    /\ UNCHANGED << pack_in, sheet, dirs, args, target_dir, i, base_name,
                    full_tres_path, tres_content, ret, before, calls, wired, log >>

\* lines 164-165: return (full_tres_path,)
Return(p) ==
    /\ pc[p] = "return"
    /\ ret' = [ret EXCEPT ![p] = full_tres_path[p]]
    /\ log' = Append(log, [args |-> args[p], path |-> full_tres_path[p],
                           before |-> DOMAIN before[p].files])
    /\ pc' = [pc EXCEPT ![p] = "done"]
    /\ UNCHANGED << pack_in, sheet, dirs, files, args, target_dir, i, base_name,
                    full_tres_path, tres_content, before, calls, wired >>

\* the node is run once by this invocation
CallOnce(p) ==
    /\ pc[p] = "idle"
    /\ Call(p)

\* ------------------------------------------------- file system failures
\* os.makedirs raises OSError at one of the directories it has to create, after
\* it created the ones above it
MakeDirsFails(p) ==
    /\ pc[p] = "makedirs"
    /\ LET t == TargetDir(args[p].save_directory_path)
           missing == DirChain(t) \ dirs
       IN /\ target_dir' = [target_dir EXCEPT ![p] = t]
          /\ \E d \in missing :
                dirs' = dirs \cup { m \in missing : Len(m) < Len(d) }
    /\ pc' = [pc EXCEPT ![p] = "failed_makedirs"]
    /\ UNCHANGED << pack_in, sheet, files, args, i, base_name, full_tres_path,
                    tres_content, ret, before, calls, wired, log >>

\* open(full_tres_path, 'w') raises OSError: no file is created
OpenFails(p) ==
    /\ pc[p] = "open"
    /\ pc' = [pc EXCEPT ![p] = "failed_open"]
    /\ UNCHANGED << pack_in, sheet, dirs, files, args, target_dir, i, base_name,
                    full_tres_path, tres_content, ret, before, calls, wired, log >>

\* f.write or the flush of the close raises OSError (disk full) after k of the
\* document's blocks reached the file
WriteFails(p) ==
    /\ pc[p] = "write"
    /\ \E k \in 0..(Len(tres_content[p]) - 1) :
          files' = WriteClose(files, full_tres_path[p], SubSeq(tres_content[p], 1, k))
    /\ pc' = [pc EXCEPT ![p] = "failed_write"]
    /\ UNCHANGED << pack_in, sheet, dirs, args, target_dir, i, base_name,
                    full_tres_path, tres_content, ret, before, calls, wired, log >>

\* the workflow: the packer, then the serializer on its outputs
Next ==
    \/ CreateSpriteSheet
    \/ CallFromSheet(1)
    \/ MakeDirs(1)
    \/ ScanNext(1)
    \/ ScanBreak(1)
    \/ Generate(1)
    \/ GenerateFails(1)
    \/ Open(1)
    \/ Write(1)
    \/ Return(1)

Spec == Init /\ [][Next]_vars

\* the serializer called again and again, one call after the other
NextTres ==
    \/ Call(1)
    \/ MakeDirs(1)
    \/ ScanNext(1)
    \/ ScanBreak(1)
    \/ Generate(1)
    \/ Open(1)
    \/ Write(1)
    \/ Return(1)

SpecTres == InitTres /\ [][NextTres]_vars

\* one call of the serializer, which is scheduled until it ends
NextScan ==
    \/ CallOnce(1)
    \/ MakeDirs(1)
    \/ ScanNext(1)
    \/ ScanBreak(1)
    \/ Generate(1)
    \/ Open(1)
    \/ Write(1)
    \/ Return(1)

SpecScan == InitTres /\ [][NextScan]_vars /\ WF_vars(NextScan)

\* the workflow on a file system whose operations can fail
NextFail ==
    \/ Next
    \/ MakeDirsFails(1)
    \/ OpenFails(1)
    \/ WriteFails(1)

SpecFail == Init /\ [][NextFail]_vars

\* two invocations of the serializer whose steps interleave
NextConc ==
    \E p \in Procs :
        \/ CallOnce(p)
        \/ MakeDirs(p)
        \/ ScanNext(p)
        \/ ScanBreak(p)
        \/ Generate(p)
        \/ Open(p)
        \/ Write(p)
        \/ Return(p)

SpecConc == InitConc /\ [][NextConc]_vars

\* ================================================================ claims
\* the document of the call that process 1 completed, as it stands in the file
Doc1 == files[ret[1]]

Min(a, b) == IF a <= b THEN a ELSE b

\* the sub-resource blocks of a document, in order
SubBlocks(doc) == SelectSeq(doc, LAMBDA b : b.type = "sub_resource")

\* C2: whenever create_sprite_sheet returns, the frame_count it returns is the
\* length of the input batch, however many frames the grid holds or were pasted.
C2_FrameCountIsBatchLength ==
    sheet.status = "returned" => sheet.frame_count = pack_in.images.n

\* a call that returned after dropping frames: fewer pasted than supplied
C2_Witness ==
    /\ sheet.status = "returned"
    /\ Len(sheet.pasted) < pack_in.images.n
    /\ sheet.frame_count = pack_in.images.n

\* C3: the frames pasted are exactly the input frames 0 .. min(frame_count,
\* capacity)-1, in order, each at its row-major cell origin; frames at or beyond
\* the capacity column_count*row_count are dropped and the call still returns.
C3_CapacityTruncation ==
    sheet.status = "returned" =>
        LET capacity == sheet.column_count * sheet.row_count
            placed == Min(pack_in.images.n, capacity)
        IN /\ Len(sheet.pasted) = placed
           /\ Len(sheet.pasted) <= capacity
           /\ \A k \in 1..placed :
                 /\ sheet.pasted[k].src = k - 1
                 /\ sheet.pasted[k].x = ((k - 1) % sheet.column_count) * sheet.frame_width
                 /\ sheet.pasted[k].y = ((k - 1) \div sheet.column_count) * sheet.frame_height
           /\ \A f \in 0..(pack_in.images.n - 1) :
                 f >= capacity => \A k \in 1..Len(sheet.pasted) : sheet.pasted[k].src # f

\* the batch is one frame longer than the grid's capacity: the last frame is dropped
C3_Witness ==
    /\ sheet.status = "returned"
    /\ pack_in.images.n = sheet.column_count * sheet.row_count + 1
    /\ sheet.column_count >= 2
    /\ Len(sheet.pasted) = pack_in.images.n - 1

\* C4: column_count <= 0 becomes 1; a row_count <= 0 becomes the ceiling of
\* frame_count / column_count (enough rows for every frame, and no empty row);
\* a row_count > 0 is used as given.
C4_RowAutoComputation ==
    sheet.status = "returned" =>
        LET cc == sheet.column_count
            rc == sheet.row_count
            n == sheet.frame_count
        IN /\ cc = (IF pack_in.column_count <= 0 THEN 1 ELSE pack_in.column_count)
           /\ pack_in.row_count <= 0 => (cc * rc >= n /\ cc * (rc - 1) < n)
           /\ pack_in.row_count > 0 => rc = pack_in.row_count
           /\ sheet.grid_size = << sheet.frame_width * cc, sheet.frame_height * rc >>

\* rows computed for a batch that does not fill its last row
C4_Witness ==
    /\ sheet.status = "returned"
    /\ pack_in.row_count <= 0
    /\ pack_in.column_count >= 2
    /\ sheet.frame_count % sheet.column_count # 0
    /\ sheet.row_count >= 2

\* C5: for column_count >= 1 the document written has exactly frame_count
\* sub-resources AtlasTexture_1 .. AtlasTexture_frame_count in order, sub-resource
\* i+1 has the region ((i mod column_count)*frame_width, (i div column_count)*
\* frame_height, frame_width, frame_height), load_steps is frame_count + 2, and
\* the animation lists the same sub-resources in order.
C5_RegionFormula ==
    (pc[1] = "done" /\ args[1].column_count >= 1) =>
        LET a == args[1]
            n == a.frame_count
            subs == SubBlocks(Doc1)
        IN /\ Len(subs) = n
           /\ Len(Doc1) = n + 3
           /\ Doc1[1].type = "gd_resource" /\ Doc1[1].load_steps = n + 2
           /\ \A k \in 1..n :
                 /\ Doc1[2 + k] = subs[k]
                 /\ subs[k].id = << "AtlasTexture_", k >>
                 /\ subs[k].region =
                       << ((k - 1) % a.column_count) * a.frame_width,
                          ((k - 1) \div a.column_count) * a.frame_height,
                          a.frame_width, a.frame_height >>
           /\ Doc1[n + 3].type = "resource"
           /\ Len(Doc1[n + 3].frames) = n
           /\ \A k \in 1..n : Doc1[n + 3].frames[k].texture = subs[k].id

\* a document of several rows of cells that are not square
C5_Witness ==
    /\ pc[1] = "done"
    /\ args[1].column_count >= 2
    /\ args[1].frame_count > args[1].column_count
    /\ args[1].frame_width # args[1].frame_height
    /\ Len(SubBlocks(Doc1)) = args[1].frame_count

\* C8: create_sprite_sheet raises on an empty batch, before any canvas exists,
\* and raises no input error on any non-empty batch.
C8_RaisesOnlyOnEmptyBatch ==
    pack_in # NoCall =>
        /\ pack_in.images.n = 0 => sheet.status = "raised"
        /\ pack_in.images.n > 0 => sheet.status = "returned"

\* C10: with column_count >= 1 and an auto-computed row_count, the serializer run
\* on the packer's outputs gives frame i the origin at which the packer pasted
\* it, every region lies inside the composite, and no two regions overlap.
C10_PackerSerializerAgree ==
    (pc[1] = "done" /\ pack_in.column_count >= 1 /\ pack_in.row_count <= 0) =>
        LET subs == SubBlocks(Doc1)
            n == sheet.frame_count
            X(k) == subs[k].region[1]
            Y(k) == subs[k].region[2]
            W(k) == subs[k].region[3]
            H(k) == subs[k].region[4]
        IN /\ Len(subs) = n
           /\ Len(sheet.pasted) = n
           /\ \A k \in 1..n :
                 /\ sheet.pasted[k].src = k - 1
                 /\ X(k) = sheet.pasted[k].x /\ Y(k) = sheet.pasted[k].y
                 /\ X(k) >= 0 /\ Y(k) >= 0
                 /\ X(k) + W(k) <= sheet.grid_size[1]
                 /\ Y(k) + H(k) <= sheet.grid_size[2]
           /\ \A j, k \in 1..n :
                 j # k => \/ X(j) + W(j) <= X(k) \/ X(k) + W(k) <= X(j)
                          \/ Y(j) + H(j) <= Y(k) \/ Y(k) + H(k) <= Y(j)

\* the pipeline ran on a batch that fills more than one row
C10_Witness ==
    /\ pc[1] = "done"
    /\ pack_in.column_count >= 2
    /\ pack_in.row_count <= 0
    /\ sheet.frame_count = 3
    /\ sheet.frame_width # sheet.frame_height
    /\ Len(SubBlocks(Doc1)) = 3

\* the path the code is to choose for index j < 10: the output directory, the
\* prefix, "_", j written with leading zeros to number_padding digits, ".tres"
ExpectedBase(prefix, j, padding) ==
    prefix \o << "_" >>
    \o [k \in 1..padding |->
           IF k < padding THEN "0"
           ELSE << "0", "1", "2", "3", "4", "5", "6", "7", "8", "9" >>[j + 1]]

ExpectedPath(prefix, j, padding) ==
    << "/", "b", "/", "o", "/", "s", "/" >> \o ExpectedBase(prefix, j, padding) \o << ".tres" >>

\* C1: calls made one after the other never overwrite: all through a call every
\* file that existed before it is there with its content, a call that returned
\* created exactly one new .tres file, no two calls return the same path, and two
\* calls with the same arguments on an empty directory give prefix_1.tres and
\* prefix_2.tres.
C1_NeverOverwrites ==
    /\ pc[1] # "idle" =>
          \A q \in DOMAIN before[1].files :
              q \in DOMAIN files /\ files[q] = before[1].files[q]
    /\ pc[1] = "done" =>
          /\ (DOMAIN files) \ (DOMAIN before[1].files) = { ret[1] }
          /\ ret[1][Len(ret[1])] = ".tres"
    /\ \A j, k \in 1..Len(log) : j # k => log[j].path # log[k].path
    /\ (Len(log) >= 2 /\ log[1].args = log[2].args /\ log[1].before = {}) =>
          LET a == log[1].args IN
          /\ log[1].path = ExpectedPath(a.filename_prefix, 1, a.number_padding)
          /\ log[2].path = ExpectedPath(a.filename_prefix, 2, a.number_padding)
          /\ {log[1].path, log[2].path} \subseteq DOMAIN files

\* two calls with the same arguments returned, the first on an empty directory
C1_Witness ==
    /\ Len(log) = 2
    /\ log[1].args = log[2].args
    /\ log[1].before = {}
    /\ pc[1] = "done"
    /\ Cardinality(DOMAIN files) = 2

\* the original C6: a call that failed left the file system as it was
C6_FailureLeavesNoTrace ==
    pc[1] \in Failed => (dirs = before[1].dirs /\ files = before[1].files)

IsProperPrefix(s, t) == Len(s) < Len(t) /\ s = SubSeq(t, 1, Len(s))

\* C6 as amended: the packer raises with no composite and no metadata; a failed
\* create_tres_file returns no path and leaves every earlier file and directory
\* as it was, but directories that makedirs created stay, and when the write
\* fails after the open the new candidate file stays, holding a proper prefix
\* (possibly nothing) of the document; no other file appears.
C6_FailureLeavesOldFilesOnly ==
    /\ sheet.status = "raised" => DOMAIN sheet = {"status", "error"}
    /\ pc[1] \in Failed =>
          /\ ret[1] = None
          /\ \A q \in DOMAIN before[1].files :
                q \in DOMAIN files /\ files[q] = before[1].files[q]
          /\ before[1].dirs \subseteq dirs
          /\ dirs \ before[1].dirs \subseteq
                { << "/", "b", "/", "o" >>, << "/", "b", "/", "o", "/", "s" >> }
          /\ pc[1] # "failed_write" => DOMAIN files = DOMAIN before[1].files
          /\ pc[1] = "failed_makedirs" => << "/", "b", "/", "o", "/", "s" >> \notin dirs
          /\ pc[1] = "failed_write" =>
                /\ (DOMAIN files) \ (DOMAIN before[1].files) = { full_tres_path[1] }
                /\ IsProperPrefix(files[full_tres_path[1]], tres_content[1])

\* the write failed half way: a new file with a part of the document stays
C6_Witness ==
    /\ pc[1] = "failed_write"
    /\ full_tres_path[1] \in DOMAIN files
    /\ full_tres_path[1] \notin DOMAIN before[1].files
    /\ Len(files[full_tres_path[1]]) >= 2
    /\ dirs # before[1].dirs

\* C7: the scan and the write are not atomic: two interleaved invocations can
\* pick the same name; when they do, both return the same path, only one new
\* file exists and it holds the document of one of them alone.
C7_SameNameClobbers ==
    (pc[1] = "done" /\ pc[2] = "done" /\ base_name[1] = base_name[2]) =>
        /\ ret[1] = ret[2]
        /\ (DOMAIN files) \ ((DOMAIN before[1].files) \cap (DOMAIN before[2].files))
              = { ret[1] }
        /\ files[ret[1]] \in { tres_content[1], tres_content[2] }

\* both invocations completed with the same name, and the document of one is lost
C7_Witness ==
    /\ pc[1] = "done" /\ pc[2] = "done"
    /\ args[1] = args[2]
    /\ ret[1] = ret[2]
    /\ tres_content[1] # tres_content[2]
    /\ files[ret[1]] = tres_content[2]
    /\ Cardinality((DOMAIN files) \ (DOMAIN before[1].files)) = 1

\* what C9 says of every state of a call
C9_Safety ==
    LET a == args[1]
        Name(j) == ExpectedPath(a.filename_prefix, j, a.number_padding)
    IN /\ pc[1] \in {"generate", "open", "write", "return", "done"} =>
             /\ i[1] >= 1
             /\ full_tres_path[1] = Name(i[1])
             /\ Name(i[1]) \notin DOMAIN before[1].files
             /\ \A j \in 1..(i[1] - 1) : Name(j) \in DOMAIN before[1].files
       /\ pc[1] = "done" =>
             /\ ret[1] = Name(i[1])
             /\ ret[1] \in DOMAIN files
             /\ files[ret[1]] = tres_content[1]
             /\ files[ret[1]][2].path =
                   ExpectedBase(a.filename_prefix, i[1], a.number_padding) \o << ".png" >>

\* C9: the scan ends, and it ends at the smallest index i >= 1 whose name
\* prefix_<i padded>.tres is not in the resolved directory; that path is the one
\* written and returned, and the document names <base_name>.png.
C9_ScanChoosesSmallestFree ==
    /\ [] C9_Safety
    /\ (pc[1] = "scan") ~> (pc[1] = "done")

\* the scan went past two taken names
C9_Witness ==
    /\ pc[1] = "done"
    /\ i[1] = 3
    /\ ret[1] \in DOMAIN files

====
